---- MODULE Spec2Model ----
(***************************************************************************)
(* A model of edmu: the OrderedModel ranking routine (models.py), the      *)
(* audit stamping of UserStampedAdmin (admin.py), the owner permission     *)
(* predicates (api/permissions.py) and get_object_or_permission_denied     *)
(* (api/shortcuts.py).                                                     *)
(***************************************************************************)
EXTENDS Integers, FiniteSets, Sequences, TLC

\* ---------------------------------------------------------------- bounds
MaxPk == 3
MaxRank == 3
MaxUser == 2
MaxSaves == 4
MaxDocs == 2

\* self.pk of an instance that was never saved (None, falsy in `not self.pk`)
NoPk == 0

\* self.order of an instance made without one (None; the field holds no
\* negative number)
NoOrder == -1

PKs == 1..MaxPk
Ranks == 0..MaxRank

VARIABLES
    table,    \* the stored rows of one OrderedModel: pk -> order
    nextPk,   \* the next auto-increment primary key
    self,     \* the in-memory instance of the request: [pk, order]
    last,     \* the last operation: [op, pre (table before), was (self before)]
    calls,    \* the move calls made on one instance, in order: "up" / "down"
    hist,     \* hist[i]: the table right before calls[i]
    req,      \* two concurrent requests: req[i] = [kind, pk, up]
    pc,       \* pc[i]: where request i stands
    loc,      \* loc[i]: the locals of request i: [me, repl]
    overlap,  \* a request has taken a step while the other was under way
    origin,   \* the table and nextPk the two requests started from
    request,  \* permissions: the request, [method, user]
    target,   \* permissions: the object, [owner]
    verdict,  \* permissions: the last check, [by, allowed]
    docs,     \* admin: the stored UserStampedModel rows, pk -> [created_by, updated_by]
    log,      \* admin: the saves made, in order: [pk, user]
    queryset, \* shortcuts: the rows of the queryset, pk -> name
    kwargs,   \* shortcuts: the filter argument, [field, type, n, s]
    outcome   \* shortcuts: what the call did, [called, kind, pk]

orderVars == <<table, nextPk, self, last>>
walkVars == <<calls, hist>>
concVars == <<req, pc, loc, overlap, origin>>
permVars == <<request, target, verdict>>
adminVars == <<docs, log>>
lookupVars == <<queryset, kwargs, outcome>>
webVars == <<permVars, adminVars, lookupVars>>
vars == <<orderVars, walkVars, concVars, webVars>>

\* ------------------------------------------------- OrderedModel (models.py)

\* order = models.PositiveIntegerField(editable=False, db_index=True): no
\* unique constraint, so a table is any map from primary keys to ranks >= 0.
Tables == UNION {[S -> Ranks] : S \in SUBSET PKs}

SetMax(S) == CHOOSE m \in S : \A n \in S : n <= m

\* objects.all().aggregate(Max('order')).get('order__max'): None on no rows
AggregateMax(t) ==
    IF DOMAIN t = {} THEN [null |-> TRUE, val |-> 0]
    ELSE [null |-> FALSE, val |-> SetMax({t[p] : p \in DOMAIN t})]

\* Python truth value of an int-or-None
Truthy(c) == ~c.null /\ c.val # 0

\* self.order = c and c + 1 or 0
NewOrder(c) ==
    IF Truthy(c)
    THEN (IF c.val + 1 # 0 THEN c.val + 1 ELSE 0)
    ELSE 0

\* super().save(): UPDATE the row with this pk, INSERT it when there is none
SaveRow(t, pk, order) == [p \in DOMAIN t \cup {pk} |-> IF p = pk THEN order ELSE t[p]]

\* OrderedModel.save of the instance me, n being the next primary key:
\* the table, the instance and the next primary key afterwards
Saved(t, n, me) ==
    IF me.pk = NoPk
    THEN LET o == NewOrder(AggregateMax(t)) IN
         [table |-> SaveRow(t, n, o), me |-> [pk |-> n, order |-> o], nextPk |-> n + 1]
    ELSE [table |-> SaveRow(t, me.pk, me.order), me |-> me, nextPk |-> n]

\* a variant with the two comparisons exchanged (order__gt for up)
FilteredWrongWay(t, order, up) ==
    {p \in DOMAIN t : IF up THEN t[p] > order ELSE t[p] < order}

\* qs.filter(order__lt=self.order) / qs.filter(order__gt=self.order)
Filtered(t, order, up) ==
    {p \in DOMAIN t : IF up THEN t[p] < order ELSE t[p] > order}

\* a variant without order_by('-order'): always the default ascending order
FirstRowsAscending(t, S, up) == {p \in S : \A q \in S : t[q] >= t[p]}

\* qs[0] under order_by('-order') (up) or Meta.ordering = ('order',) (down):
\* the rows the database may return first; ties are broken by the database.
FirstRows(t, S, up) ==
    {p \in S : \A q \in S : IF up THEN t[q] <= t[p] ELSE t[q] >= t[p]}

\* a variant without replacement.save()
MovedSelfOnly(t, n, me, up) ==
    LET qs == Filtered(t, me.order, up) IN
    IF me.order = NoOrder \/ qs = {}
    THEN {[table |-> t, me |-> me, nextPk |-> n]}
    ELSE {Saved(t, n, [me EXCEPT !.order = t[r]]) : r \in FirstRows(t, qs, up)}

\* a variant that writes both rows but leaves self.order as it was
MovedStaleSelf(t, n, me, up) ==
    LET qs == Filtered(t, me.order, up) IN
    IF me.order = NoOrder \/ qs = {}
    THEN {[table |-> t, me |-> me, nextPk |-> n]}
    ELSE {LET s1 == Saved(t, n, [me EXCEPT !.order = t[r]])
              s2 == Saved(s1.table, s1.nextPk, [pk |-> r, order |-> me.order])
          IN  [table |-> s2.table, me |-> [s1.me EXCEPT !.order = me.order],
               nextPk |-> s2.nextPk] :
             r \in FirstRows(t, qs, up)}

\* OrderedModel._move of the instance me, n being the next primary key: the
\* tables, instances and next primary keys it may leave, one per row the
\* database may return as qs[0].  A filter on None raises before any write;
\* IndexError returns; otherwise the ranks are swapped in memory, then
\* self.save(), then replacement.save().
Moved(t, n, me, up) ==
    LET qs == Filtered(t, me.order, up) IN
    IF me.order = NoOrder \/ qs = {}
    THEN {[table |-> t, me |-> me, nextPk |-> n]}
    ELSE {LET s1 == Saved(t, n, [me EXCEPT !.order = t[r]])
              s2 == Saved(s1.table, s1.nextPk, [pk |-> r, order |-> me.order])
          IN  [table |-> s2.table, me |-> s1.me, nextPk |-> s2.nextPk] :
             r \in FirstRows(t, qs, up)}

\* Model.objects.get(pk=p)
Load(p) ==
    /\ p \in DOMAIN table
    /\ self' = [pk |-> p, order |-> table[p]]
    /\ last' = [op |-> "load", pre |-> table, was |-> self]
    /\ UNCHANGED <<table, nextPk, walkVars, concVars, webVars>>

\* Model(...) or Model(order=o): a new instance
New(o) ==
    /\ self' = [pk |-> NoPk, order |-> o]
    /\ last' = [op |-> "new", pre |-> table, was |-> self]
    /\ UNCHANGED <<table, nextPk, walkVars, concVars, webVars>>

\* OrderedModel.save
save ==
    /\ LET s == Saved(table, nextPk, self) IN
          /\ \A p \in DOMAIN s.table : p <= MaxPk /\ s.table[p] <= MaxRank
          /\ table' = s.table
          /\ self' = s.me
          /\ nextPk' = s.nextPk
    /\ last' = [op |-> "save", pre |-> table, was |-> self]
    /\ UNCHANGED <<walkVars, concVars, webVars>>

\* Model.delete: the row goes, and the instance that was deleted loses its pk
Delete(p) ==
    /\ p \in DOMAIN table
    /\ table' = [q \in DOMAIN table \ {p} |-> table[q]]
    /\ self' = IF self.pk = p THEN [self EXCEPT !.pk = NoPk] ELSE self
    /\ last' = [op |-> "delete", pre |-> table, was |-> self]
    /\ UNCHANGED <<nextPk, walkVars, concVars, webVars>>

\* OrderedModel._move
_move(up) ==
    /\ \E m \in Moved(table, nextPk, self, up) :
          /\ \A p \in DOMAIN m.table : p <= MaxPk /\ m.table[p] <= MaxRank
          /\ table' = m.table
          /\ self' = m.me
          /\ nextPk' = m.nextPk
    /\ last' = [op |-> IF up THEN "move_up" ELSE "move_down",
                pre |-> table, was |-> self]
    /\ UNCHANGED <<concVars, webVars>>

\* OrderedModel.move_up / move_down, called by a request of its own
move_up == _move(TRUE) /\ UNCHANGED walkVars
move_down == _move(FALSE) /\ UNCHANGED walkVars

\* ------------------------------------------------ one request at a time

\* the instance holds what its stored row holds (freshly loaded)
Fresh(me, t) == me.pk \in DOMAIN t /\ t[me.pk] = me.order

NoInstance == [pk |-> NoPk, order |-> NoOrder]

WalkIdle == calls = << >> /\ hist = << >>

ConcIdle ==
    /\ req = << >>
    /\ pc = << >>
    /\ loc = << >>
    /\ overlap = FALSE
    /\ origin = << >>

OrderIdle ==
    /\ table = << >>
    /\ nextPk = 1
    /\ self = NoInstance
    /\ last = [op |-> "init", pre |-> table, was |-> self]

PermIdle ==
    /\ request = << >>
    /\ target = << >>
    /\ verdict = << >>

AdminIdle == docs = << >> /\ log = << >>

LookupIdle ==
    /\ queryset = << >>
    /\ kwargs = << >>
    /\ outcome = << >>

WebIdle == PermIdle /\ AdminIdle /\ LookupIdle

Init ==
    /\ table \in Tables
    /\ nextPk \in {n \in 1..(MaxPk + 1) : \A p \in DOMAIN table : p < n}
    /\ self = NoInstance
    /\ last = [op |-> "init", pre |-> table, was |-> self]
    /\ WalkIdle
    /\ ConcIdle
    /\ WebIdle

Next ==
    \/ \E p \in PKs : Load(p)
    \/ \E o \in Ranks \cup {NoOrder} : New(o)
    \/ save
    \/ \E p \in PKs : Delete(p)
    \/ move_up
    \/ move_down

Spec == Init /\ [][Next]_vars

\* The same operations on a table that starts empty
InitEmpty ==
    /\ table = << >>
    /\ nextPk = 1
    /\ self = NoInstance
    /\ last = [op |-> "init", pre |-> table, was |-> self]
    /\ WalkIdle
    /\ ConcIdle
    /\ WebIdle

\* move_up / move_down called on a freshly loaded instance
FreshMoveUp == Fresh(self, table) /\ move_up
FreshMoveDown == Fresh(self, table) /\ move_down

NextEmpty ==
    \/ \E p \in PKs : Load(p)
    \/ \E o \in Ranks \cup {NoOrder} : New(o)
    \/ save
    \/ \E p \in PKs : Delete(p)
    \/ FreshMoveUp
    \/ FreshMoveDown

SpecEmpty == InitEmpty /\ [][NextEmpty]_vars

\* ------------------------- repeated move_up / move_down on one instance x

MaxCalls == MaxPk + 1

InitWalk ==
    /\ table \in Tables
    /\ nextPk = MaxPk + 1
    /\ \E p \in DOMAIN table : self = [pk |-> p, order |-> table[p]]
    /\ last = [op |-> "load", pre |-> table, was |-> self]
    /\ WalkIdle
    /\ ConcIdle
    /\ WebIdle

WalkUp ==
    /\ Len(calls) < MaxCalls
    /\ _move(TRUE)
    /\ calls' = Append(calls, "up")
    /\ hist' = Append(hist, table)

WalkDown ==
    /\ Len(calls) < MaxCalls
    /\ _move(FALSE)
    /\ calls' = Append(calls, "down")
    /\ hist' = Append(hist, table)

NextWalk == WalkUp \/ WalkDown

SpecWalk == InitWalk /\ [][NextWalk]_vars

\* ------------------------------------- two requests served concurrently
\* A request either creates a row (Model().save()) or loads the row pk and
\* calls move_up / move_down on it.  Every database query is one step; no
\* lock or transaction spans the steps of a request.

Procs == {1, 2}

SaveRequest == [kind |-> "save", pk |-> NoPk, up |-> FALSE]

MoveRequests(t) == [kind : {"move"}, pk : DOMAIN t, up : BOOLEAN]

Under(i) == pc[i] \notin {"start", "done"}

\* request i takes a step: it overlaps the other one if that one is under way
Step(i, to) ==
    /\ pc' = [pc EXCEPT ![i] = to]
    /\ overlap' = (overlap \/ \E j \in Procs \ {i} : Under(j))
    /\ UNCHANGED <<req, origin, self, last, walkVars, webVars>>

\* save, lines 71-73: `not self.pk`, the Max aggregate, self.order
SaveBegin(i) ==
    /\ pc[i] = "start" /\ req[i].kind = "save"
    /\ loc' = [loc EXCEPT ![i].me =
                  [pk |-> NoPk, order |-> NewOrder(AggregateMax(table))]]
    /\ Step(i, "insert")
    /\ UNCHANGED <<table, nextPk>>

\* save, line 74: super().save() inserts the row
SaveInsert(i) ==
    /\ pc[i] = "insert"
    /\ table' = SaveRow(table, nextPk, loc[i].me.order)
    /\ nextPk' = nextPk + 1
    /\ loc' = [loc EXCEPT ![i].me.pk = nextPk]
    /\ Step(i, "done")

\* the view loads the instance: self.order is read here
MoveLoad(i) ==
    /\ pc[i] = "start" /\ req[i].kind = "move"
    /\ loc' = [loc EXCEPT ![i].me = [pk |-> req[i].pk, order |-> table[req[i].pk]]]
    /\ Step(i, "read")
    /\ UNCHANGED <<table, nextPk>>

\* _move, lines 80-88: replacement = qs[0], or return on IndexError
MoveRead(i) ==
    /\ pc[i] = "read"
    /\ LET qs == Filtered(table, loc[i].me.order, req[i].up) IN
       IF qs = {}
       THEN /\ Step(i, "done")
            /\ UNCHANGED loc
       ELSE \E r \in FirstRows(table, qs, req[i].up) :
               /\ loc' = [loc EXCEPT ![i].repl = [pk |-> r, order |-> table[r]]]
               /\ Step(i, "write_self")
    /\ UNCHANGED <<table, nextPk>>

\* _move, lines 89-90: the swap in memory, then self.save()
MoveWriteSelf(i) ==
    /\ pc[i] = "write_self"
    /\ LET me == [loc[i].me EXCEPT !.order = loc[i].repl.order]
           repl == [loc[i].repl EXCEPT !.order = loc[i].me.order]
       IN  /\ loc' = [loc EXCEPT ![i] = [me |-> me, repl |-> repl]]
           /\ table' = Saved(table, nextPk, me).table
    /\ Step(i, "write_repl")
    /\ UNCHANGED nextPk

\* a variant that saves the replacement with the rank it was read with
MoveWriteReplUnswapped(i) ==
    /\ pc[i] = "write_repl"
    /\ table' = SaveRow(table, loc[i].repl.pk, loc[i].me.order)
    /\ Step(i, "done")
    /\ UNCHANGED <<nextPk, loc>>

\* _move, line 91: replacement.save()
MoveWriteRepl(i) ==
    /\ pc[i] = "write_repl"
    /\ table' = Saved(table, nextPk, loc[i].repl).table
    /\ Step(i, "done")
    /\ UNCHANGED <<nextPk, loc>>

DistinctTables ==
    {t \in UNION {[1..k -> Ranks] : k \in 0..MaxPk} :
        \A p, q \in DOMAIN t : p # q => t[p] # t[q]}

InitConc ==
    /\ table \in DistinctTables
    /\ nextPk = Cardinality(DOMAIN table) + 1
    /\ req \in [Procs -> {SaveRequest} \cup MoveRequests(table)]
    /\ pc = [i \in Procs |-> "start"]
    /\ loc = [i \in Procs |-> [me |-> NoInstance, repl |-> NoInstance]]
    /\ overlap = FALSE
    /\ origin = [table |-> table, nextPk |-> nextPk]
    /\ self = NoInstance
    /\ last = [op |-> "init", pre |-> table, was |-> self]
    /\ WalkIdle
    /\ WebIdle

NextConc ==
    \E i \in Procs :
       \/ SaveBegin(i)
       \/ SaveInsert(i)
       \/ MoveLoad(i)
       \/ MoveRead(i)
       \/ MoveWriteSelf(i)
       \/ MoveWriteRepl(i)

SpecConc == InitConc /\ [][NextConc]_vars

\* the request r served alone, from the table and next pk s
Served(s, r) ==
    IF r.kind = "save"
    THEN LET x == Saved(s.table, s.nextPk, NoInstance) IN
         {[table |-> x.table, nextPk |-> x.nextPk]}
    ELSE {[table |-> m.table, nextPk |-> m.nextPk] :
             m \in Moved(s.table, s.nextPk,
                         [pk |-> r.pk, order |-> s.table[r.pk]], r.up)}

\* the tables the two requests leave when served one after the other
SerialTables ==
    {b.table : b \in UNION {Served(a, req[2]) : a \in Served(origin, req[1])}}
    \cup
    {b.table : b \in UNION {Served(a, req[1]) : a \in Served(origin, req[2])}}

AllDone == \A i \in Procs : pc[i] = "done"

\* ------------------------------------ permissions (api/permissions.py)

UserPks == 1..MaxUser

\* request.user: a user row loaded by the request, or AnonymousUser
RequestUsers ==
    [kind : {"user"}, pk : UserPks, at : {"request"}]
    \cup {[kind |-> "anonymous", pk |-> NoPk, at |-> "request"]}

\* obj.owner: the user row the foreign key loads, or None
Owners ==
    [kind : {"user"}, pk : UserPks, at : {"owner"}]
    \cup {[kind |-> "none", pk |-> NoPk, at |-> "owner"]}

Methods == {"GET", "HEAD", "OPTIONS", "POST", "PUT", "PATCH", "DELETE"}

\* permissions.SAFE_METHODS
SAFE_METHODS == {"GET", "HEAD", "OPTIONS"}

\* obj.owner == request.user: two model instances are equal when they are
\* rows of the same model with the same pk, whichever objects hold them
PyEq(a, b) == a.kind = b.kind /\ a.pk = b.pk

\* IsOwner.has_object_permission
IsOwner(r, o) == PyEq(o.owner, r.user)

\* a variant without the owner test
IsOwnerOrReadOnlySafeOnly(r, o) == r.method \in SAFE_METHODS

\* IsOwnerOrReadOnly.has_object_permission
IsOwnerOrReadOnly(r, o) ==
    IF r.method \in SAFE_METHODS THEN TRUE ELSE PyEq(o.owner, r.user)

\* the framework asks IsOwner about the request and the object
CheckIsOwner ==
    /\ verdict' = [by |-> "IsOwner", allowed |-> IsOwner(request, target)]
    /\ UNCHANGED <<request, target, orderVars, walkVars, concVars, adminVars, lookupVars>>

\* the framework asks IsOwnerOrReadOnly about the request and the object
CheckIsOwnerOrReadOnly ==
    /\ verdict' = [by |-> "IsOwnerOrReadOnly",
                   allowed |-> IsOwnerOrReadOnly(request, target)]
    /\ UNCHANGED <<request, target, orderVars, walkVars, concVars, adminVars, lookupVars>>

InitPerm ==
    /\ request \in [method : Methods, user : RequestUsers]
    /\ target \in [owner : Owners]
    /\ verdict = [by |-> "none", allowed |-> FALSE]
    /\ OrderIdle /\ WalkIdle /\ ConcIdle /\ AdminIdle /\ LookupIdle

NextPerm == CheckIsOwner \/ CheckIsOwnerOrReadOnly

SpecPerm == InitPerm /\ [][NextPerm]_vars

\* ------------------------------------------- audit stamping (admin.py)

\* an instance the admin has not saved yet: no pk, no stamps
NewDoc == [pk |-> NoPk, created_by |-> NoPk, updated_by |-> NoPk]

\* the instance the admin loads for the stored row p
LoadedDoc(p) ==
    [pk |-> p, created_by |-> docs[p].created_by, updated_by |-> docs[p].updated_by]

\* a variant without `if not obj.pk`
StampedAlways(obj, user) ==
    [obj EXCEPT !.created_by = user, !.updated_by = user]

\* save_model / save_formset, lines 33-35 and 42-44
Stamped(obj, user) ==
    [obj EXCEPT !.created_by = IF obj.pk = NoPk THEN user ELSE @,
                !.updated_by = user]

\* obj.save(): the row of a new instance gets the next primary key
DocSaved(d, obj) ==
    LET p == IF obj.pk = NoPk THEN Cardinality(DOMAIN d) + 1 ELSE obj.pk IN
    [q \in DOMAIN d \cup {p} |->
        IF q = p THEN [created_by |-> obj.created_by, updated_by |-> obj.updated_by]
        ELSE d[q]]

DocPk(d, obj) == IF obj.pk = NoPk THEN Cardinality(DOMAIN d) + 1 ELSE obj.pk

\* the loop of save_formset over the instances objs, in order
RECURSIVE FormsetSaved(_, _, _, _)
FormsetSaved(d, lg, objs, user) ==
    IF objs = << >> THEN [docs |-> d, log |-> lg]
    ELSE LET obj == Stamped(Head(objs), user) IN
         FormsetSaved(DocSaved(d, obj),
                      Append(lg, [pk |-> DocPk(d, obj), user |-> user]),
                      Tail(objs), user)

\* UserStampedAdmin.save_model: the object is new (p = NoPk) or the row p
save_model(user, p) ==
    /\ Len(log) < MaxSaves
    /\ p = NoPk => Cardinality(DOMAIN docs) < MaxDocs
    /\ LET r == FormsetSaved(docs, log,
                    <<IF p = NoPk THEN NewDoc ELSE LoadedDoc(p)>>, user)
       IN  docs' = r.docs /\ log' = r.log
    /\ UNCHANGED <<orderVars, walkVars, concVars, permVars, lookupVars>>

\* the instances formset.save(commit=False) returns: the changed rows among
\* the stored ones, then k new ones
FormsetObjects(S, k) ==
    LET RECURSIVE Listed(_)
        Listed(T) ==
            IF T = {} THEN << >>
            ELSE LET p == CHOOSE q \in T : \A z \in T : q <= z
                 IN  <<LoadedDoc(p)>> \o Listed(T \ {p})
    IN  Listed(S) \o [i \in 1..k |-> NewDoc]

\* UserStampedAdmin.save_formset
save_formset(user, S, k) ==
    /\ Len(log) + Cardinality(S) + k <= MaxSaves
    /\ Cardinality(DOMAIN docs) + k <= MaxDocs
    /\ LET r == FormsetSaved(docs, log, FormsetObjects(S, k), user)
       IN  docs' = r.docs /\ log' = r.log
    /\ UNCHANGED <<orderVars, walkVars, concVars, permVars, lookupVars>>

InitAdmin ==
    /\ docs = << >>
    /\ log = << >>
    /\ OrderIdle /\ WalkIdle /\ ConcIdle /\ PermIdle /\ LookupIdle

NextAdmin ==
    \/ \E u \in UserPks, p \in DOMAIN docs \cup {NoPk} : save_model(u, p)
    \/ \E u \in UserPks, S \in SUBSET DOMAIN docs, k \in 0..MaxDocs :
          save_formset(u, S, k)

SpecAdmin == InitAdmin /\ [][NextAdmin]_vars

\* ------------------------------- object lookup (api/shortcuts.py)

Names == {"a", "b"}

\* the filter arguments tried: pk=<int>, pk=<str>, pk=<list>, name=<str>,
\* name=<int> and a field the model does not have
FilterArgs ==
    [field : {"pk", "name"}, type : {"int"}, n : PKs, s : {""}]
    \cup [field : {"pk"}, type : {"str"}, n : {0}, s : {"1", "2", "abc"}]
    \cup [field : {"name"}, type : {"str"}, n : {0}, s : Names]
    \cup [field : {"pk"}, type : {"list"}, n : {0}, s : {""}]
    \cup [field : {"bogus"}, type : {"int"}, n : PKs, s : {""}]

\* int(s) of the integer field's to_python: a number, or ValueError
ParsedInt(s) ==
    IF s = "1" THEN [ok |-> TRUE, n |-> 1]
    ELSE IF s = "2" THEN [ok |-> TRUE, n |-> 2]
    ELSE [ok |-> FALSE, n |-> 0]

Raised(kind) == [called |-> TRUE, kind |-> kind, pk |-> NoPk]

\* queryset.get(): the one matching row, DoesNotExist turned into Http404
\* by get_object_or_404, MultipleObjectsReturned left as it is
GotOne(rows) ==
    IF rows = {} THEN Raised("Http404")
    ELSE IF Cardinality(rows) > 1 THEN Raised("MultipleObjectsReturned")
    ELSE [called |-> TRUE, kind |-> "object", pk |-> CHOOSE p \in rows : TRUE]

\* django.shortcuts.get_object_or_404(queryset, **filter_kwargs)
get_object_or_404(qs, kw) ==
    IF kw.field \notin {"pk", "name"} THEN Raised("FieldError")
    ELSE IF kw.field = "pk"
    THEN (IF kw.type = "list" THEN Raised("TypeError")
          ELSE IF kw.type = "str"
          THEN (IF ParsedInt(kw.s).ok
                THEN GotOne({p \in DOMAIN qs : p = ParsedInt(kw.s).n})
                ELSE Raised("ValueError"))
          ELSE GotOne({p \in DOMAIN qs : p = kw.n}))
    ELSE (IF kw.type = "str"
          THEN GotOne({p \in DOMAIN qs : qs[p] = kw.s})
          ELSE GotOne({}))

\* a variant with `except Exception`
get_object_or_permission_denied_any(qs, kw) ==
    LET r == get_object_or_404(qs, kw) IN
    IF r.kind # "object" THEN Raised("PermissionDenied") ELSE r

\* get_object_or_permission_denied
get_object_or_permission_denied(qs, kw) ==
    LET r == get_object_or_404(qs, kw) IN
    IF r.kind \in {"TypeError", "ValueError"} THEN Raised("PermissionDenied") ELSE r

\* a view calls the shortcut
Call ==
    /\ outcome' = get_object_or_permission_denied(queryset, kwargs)
    /\ UNCHANGED <<queryset, kwargs, orderVars, walkVars, concVars, permVars, adminVars>>

InitLookup ==
    /\ queryset \in UNION {[S -> Names] : S \in SUBSET PKs}
    /\ kwargs \in FilterArgs
    /\ outcome = [called |-> FALSE, kind |-> "none", pk |-> NoPk]
    /\ OrderIdle /\ WalkIdle /\ ConcIdle /\ PermIdle /\ AdminIdle

NextLookup == Call

SpecLookup == InitLookup /\ [][NextLookup]_vars

\* ------------------------------------------------------------ properties

Distinct(t) == \A p, q \in DOMAIN t : p # q => t[p] # t[q]

HasBelow(t, x) == \E q \in DOMAIN t : t[q] < t[x]
HasAbove(t, x) == \E q \in DOMAIN t : t[q] > t[x]

\* C1: save on a new row gives it rank max + 1 over the stored rows, or 0 on
\* an empty table (also when the current maximum is 0).
C1_NewRowGetsMaxPlusOne ==
    (last.op = "save" /\ last.was.pk = NoPk) =>
        /\ self.pk \in DOMAIN table
        /\ table[self.pk] =
              IF DOMAIN last.pre = {} THEN 0
              ELSE SetMax({last.pre[p] : p \in DOMAIN last.pre}) + 1

\* C2: move_up on the row that is first in rank order and move_down on the
\* row that is last are no-ops: no stored rank changes and the instance's
\* in-memory rank is unchanged.
C2_BoundaryNoOp ==
    /\ (last.op = "move_up" /\ Fresh(last.was, last.pre)
            /\ ~HasBelow(last.pre, last.was.pk))
          => (table = last.pre /\ self = last.was)
    /\ (last.op = "move_down" /\ Fresh(last.was, last.pre)
            /\ ~HasAbove(last.pre, last.was.pk))
          => (table = last.pre /\ self = last.was)

C2_Witness ==
    /\ last.op = "move_up"
    /\ Fresh(last.was, last.pre)
    /\ ~HasBelow(last.pre, last.was.pk)
    /\ HasAbove(last.pre, last.was.pk)
    /\ Cardinality(DOMAIN last.pre) = MaxPk

\* the row y is adjacent to x: the greatest rank below (up) or the smallest
\* rank above (down) x's
Adjacent(t, x, y, up) ==
    /\ y \in DOMAIN t
    /\ IF up THEN t[y] < t[x] ELSE t[y] > t[x]
    /\ \A q \in DOMAIN t :
          IF up THEN (t[q] < t[x] => t[q] <= t[y])
                ELSE (t[q] > t[x] => t[q] >= t[y])

ExchangedWithNeighbour(up) ==
    LET x == last.was.pk
        t == last.pre
    IN  \E y \in DOMAIN t :
           /\ Adjacent(t, x, y, up)
           /\ DOMAIN table = DOMAIN t
           /\ table[x] = t[y]
           /\ table[y] = t[x]
           /\ self = [pk |-> x, order |-> t[y]]
           /\ \A q \in DOMAIN t \ {x, y} : table[q] = t[q]

\* C4: move_up (move_down) on a row x not at the boundary exchanges x's rank
\* with the row adjacent to x in rank order and persists both; every other
\* row keeps its rank.
C4_SwapWithAdjacent ==
    /\ (last.op = "move_up" /\ Fresh(last.was, last.pre)
            /\ HasBelow(last.pre, last.was.pk))
          => ExchangedWithNeighbour(TRUE)
    /\ (last.op = "move_down" /\ Fresh(last.was, last.pre)
            /\ HasAbove(last.pre, last.was.pk))
          => ExchangedWithNeighbour(FALSE)

C4_Witness ==
    /\ last.op = "move_up"
    /\ Fresh(last.was, last.pre)
    /\ Cardinality({q \in DOMAIN last.pre : last.pre[q] < last.pre[last.was.pk]}) >= 2
    /\ Distinct(last.pre)
    /\ table # last.pre

\* C3 as stated, for any table: x.move_up() then x.move_down() on a row x
\* that is not first restores every stored rank, and move_down then move_up
\* on a row that is not last does too.
C3_RoundTripAnyTable ==
    LET n == Len(calls) IN
    n >= 2 =>
       /\ (calls[n-1] = "up" /\ calls[n] = "down" /\ HasBelow(hist[n-1], self.pk))
             => table = hist[n-1]
       /\ (calls[n-1] = "down" /\ calls[n] = "up" /\ HasAbove(hist[n-1], self.pk))
             => table = hist[n-1]

\* C3, amended: on a table whose ranks are pairwise distinct, x.move_up()
\* then x.move_down() on a row x that is not first restores every stored
\* rank, and move_down then move_up on a row that is not last does too.
C3_RoundTripDistinct ==
    LET n == Len(calls) IN
    (n >= 2 /\ Distinct(hist[n-1])) =>
       /\ (calls[n-1] = "up" /\ calls[n] = "down" /\ HasBelow(hist[n-1], self.pk))
             => table = hist[n-1]
       /\ (calls[n-1] = "down" /\ calls[n] = "up" /\ HasAbove(hist[n-1], self.pk))
             => table = hist[n-1]

C3_Witness ==
    LET n == Len(calls) IN
    /\ n >= 2
    /\ calls[n-1] = "up" /\ calls[n] = "down"
    /\ Distinct(hist[n-1])
    /\ HasBelow(hist[n-1], self.pk)
    /\ Cardinality(DOMAIN table) = MaxPk
    /\ hist[n] # hist[n-1]
    /\ table = hist[n-1]

AllCalls(d) == \A i \in 1..Len(calls) : calls[i] = d

StrictlySmallest(t, x) == \A q \in DOMAIN t \ {x} : t[x] < t[q]
StrictlyGreatest(t, x) == \A q \in DOMAIN t \ {x} : t[x] > t[q]

\* C10: in a table of n rows with pairwise distinct ranks, n - 1 move_up
\* calls on x make x the row with the strictly smallest rank, and a move_up
\* on the row with the smallest rank changes nothing; the same holds for
\* move_down and the strictly greatest rank.
C10_ReachesBoundary ==
    LET k == Len(calls)
        n == Cardinality(DOMAIN table)
        start == IF k = 0 THEN table ELSE hist[1]
    IN  Distinct(start) =>
           /\ (AllCalls("up") /\ k >= n - 1) => StrictlySmallest(table, self.pk)
           /\ (AllCalls("up") /\ k >= 1 /\ StrictlySmallest(hist[k], self.pk))
                 => table = hist[k]
           /\ (AllCalls("down") /\ k >= n - 1) => StrictlyGreatest(table, self.pk)
           /\ (AllCalls("down") /\ k >= 1 /\ StrictlyGreatest(hist[k], self.pk))
                 => table = hist[k]

C10_Witness ==
    LET k == Len(calls) IN
    /\ k = MaxPk
    /\ Cardinality(DOMAIN table) = MaxPk
    /\ AllCalls("up")
    /\ Distinct(hist[1])
    /\ StrictlyGreatest(hist[1], self.pk)
    /\ hist[k] # hist[k-1]
    /\ StrictlySmallest(table, self.pk)
    /\ table = hist[k]

\* C9: starting from an empty table, after any sequence of non-concurrent
\* operations no two stored rows hold the same rank.
C9_RanksUnique == Distinct(table)

\* C8: save and _move take no lock, so two concurrent requests can leave a
\* table that no serial execution of the same two requests leaves (two rows
\* with one rank, a swap overwritten); such a table is left only by runs in
\* which the steps of the two requests overlap.
C8_AnomalyNeedsOverlap ==
    (req # << >> /\ AllDone /\ table \notin SerialTables) => overlap

C8_Witness ==
    /\ req # << >>
    /\ AllDone
    /\ Distinct(origin.table)
    /\ table \notin SerialTables
    /\ ~Distinct(table)

\* C5: IsOwner allows exactly when object.owner is the requesting user, and
\* IsOwnerOrReadOnly exactly when the method is GET, HEAD or OPTIONS or
\* object.owner is the requesting user.
C5_OwnerPredicates ==
    LET same == /\ target.owner.kind = "user"
                /\ request.user.kind = "user"
                /\ target.owner.pk = request.user.pk
    IN  /\ verdict.by = "IsOwner" => (verdict.allowed <=> same)
        /\ verdict.by = "IsOwnerOrReadOnly" =>
              (verdict.allowed <=> (request.method \in {"GET", "HEAD", "OPTIONS"} \/ same))

C5_Witness ==
    /\ verdict.by = "IsOwnerOrReadOnly"
    /\ request.method = "POST"
    /\ verdict.allowed
    /\ target.owner.kind = "user"

SavesOf(p) == SelectSeq(log, LAMBDA e : e.pk = p)

\* C6: after the saves of one object by the acting users u1..un, created_by
\* is u1, the user of the creating save, and updated_by is un, the user of
\* the most recent save.
C6_AuditStamps ==
    \A p \in DOMAIN docs :
       LET saves == SavesOf(p) IN
       /\ Len(saves) >= 1
       /\ docs[p].created_by = saves[1].user
       /\ docs[p].updated_by = saves[Len(saves)].user

C6_Witness ==
    \E p \in DOMAIN docs :
       LET saves == SavesOf(p) IN
       /\ Len(saves) = MaxSaves
       /\ saves[1].user # saves[2].user
       /\ saves[2].user # saves[MaxSaves].user
       /\ docs[p].created_by = saves[1].user
       /\ docs[p].updated_by = saves[MaxSaves].user

\* the rows the filter argument selects, when it is well typed
Selected ==
    IF kwargs.field = "pk"
    THEN {p \in DOMAIN queryset :
             \/ kwargs.type = "int" /\ p = kwargs.n
             \/ kwargs.type = "str" /\ kwargs.s = "1" /\ p = 1
             \/ kwargs.type = "str" /\ kwargs.s = "2" /\ p = 2}
    ELSE {p \in DOMAIN queryset : kwargs.type = "str" /\ queryset[p] = kwargs.s}

\* the filter argument has the wrong type or value for its field
BadArgument ==
    /\ kwargs.field = "pk"
    /\ \/ kwargs.type = "list"
       \/ kwargs.type = "str" /\ kwargs.s \notin {"1", "2"}

\* C7: get_object_or_permission_denied raises PermissionDenied exactly when
\* the filter argument has the wrong type or value; a found object is
\* returned, and every other failure (not found, several found, unknown
\* field) is passed on as it is.
C7_PermissionDeniedOnBadArgument ==
    outcome.called =>
       /\ outcome.kind = "PermissionDenied" <=> BadArgument
       /\ (kwargs.field = "bogus") => outcome.kind = "FieldError"
       /\ (kwargs.field # "bogus" /\ ~BadArgument) =>
             /\ Selected = {} => outcome.kind = "Http404"
             /\ Cardinality(Selected) = 1 =>
                   (outcome.kind = "object" /\ outcome.pk \in Selected)
             /\ Cardinality(Selected) > 1 => outcome.kind = "MultipleObjectsReturned"

C7_Witness ==
    /\ outcome.called
    /\ outcome.kind = "PermissionDenied"
    /\ kwargs.type = "str"
    /\ DOMAIN queryset # {}

====
